---- MODULE Spec2Model ----
(***************************************************************************)
(* Model of apps/examples/dualscreen_lvgl/dualscreen_lvgl.c: one virtual   *)
(* 1920x720 canvas flushed to two 960x720 framebuffers by a simulated 2D   *)
(* DMA that runs on the NuttX high-priority work queue.                    *)
(*                                                                         *)
(* Memory is modelled by what memcpy does to it: every framebuffer is the  *)
(* set of the byte runs the row copies have left in it.  A canvas byte is  *)
(* named by the frame that was rendered into its buffer and by its offset. *)
(* The descriptors, mappings and heap blocks of the process are kept with  *)
(* the history of the calls that released them.                            *)
(***************************************************************************)
EXTENDS Integers, Sequences, FiniteSets, TLC

VARIABLES
  ctx,        \* g_ctx: geometry of both framebuffers and dma_req[2]
  hpwork,     \* the HPWORK queue: pending request slots, oldest first
  worker,     \* the HPWORK threads, each with its position in dma_worker
  fb,         \* contents of mem_left / mem_right (byte runs copied in)
  canvas,     \* frame number last rendered into draw_buf / draw_buf2
  buf_act,    \* the canvas buffer LVGL renders the next frame into
  flushing,   \* LVGL's disp->flushing: a flush waits for flush_ready
  flushes,    \* history: the flush requests made so far
  jobs,       \* history: every transfer submitted, with its fate
  ready,      \* history: every lv_display_flush_ready call
  fault,      \* undefined accesses made so far (out of bounds, released)
  crashed,    \* an undefined access has stopped the process
  env,        \* what the environment may do (caller contract, queue)
  os,         \* the descriptors, mappings and heap blocks of the process
  main        \* main: its position and its local disp

vars == <<ctx, hpwork, worker, fb, canvas, buf_act, flushing, flushes, jobs,
          ready, fault, crashed, env, os, main>>

----------------------------------------------------------------------------
(* Pre-processor definitions                                               *)

SCREEN_WIDTH == 960
SCREEN_HEIGHT == 720
VIRTUAL_WIDTH == SCREEN_WIDTH * 2
VIRTUAL_HEIGHT == SCREEN_HEIGHT
COLOR_DEPTH == 32
BYTES_PER_PIXEL == COLOR_DEPTH \div 8

(* Bounds of the exploration                                               *)

MaxWorkers == 2   \* HPWORK threads (CONFIG_SCHED_HPNTHREADS) explored: 1..MaxWorkers
MaxFlushes == 2   \* flush requests per run

----------------------------------------------------------------------------
(* uint32_t: a value of 32 bits is kept as two 16-bit halves <<hi, lo>>,   *)
(* so that conversions of negative ints and products wrap as in C.         *)

Half == 2 ^ 16

U32(n) == <<(n \div Half) % Half, n % Half>>

U32Mul(u, m) ==
  LET p == u[2] * m
  IN  <<(u[1] * m + p \div Half) % Half, p % Half>>

U32Dec(u) ==
  IF u[2] > 0 THEN <<u[1], u[2] - 1>>
  ELSE <<(u[1] - 1) % Half, Half - 1>>

U32Zero == <<0, 0>>

\* the value fits a non-negative int (it is below 2^31)
U32Fits(u) == u[1] < Half \div 2

U32Val(u) == u[1] * Half + u[2]

----------------------------------------------------------------------------
(* Buffers and pointers                                                    *)

Surfaces == {"mem_left", "mem_right"}
CanvasBufs == {"draw_buf", "draw_buf2"}

NullPtr == [buf |-> "NULL", off |-> 0]
WildPtr == [buf |-> "wild", off |-> 0]

\* pointer + uint32_t: an offset of 2^31 or more leaves every buffer
PtrAddU32(p, u) ==
  IF p.buf \in {"NULL", "wild"} \/ ~U32Fits(u) THEN WildPtr
  ELSE [buf |-> p.buf, off |-> p.off + U32Val(u)]

\* pointer + int
PtrAddInt(p, n) ==
  IF p.buf \in {"NULL", "wild"} THEN WildPtr
  ELSE [buf |-> p.buf, off |-> p.off + n]

\* byte length of a buffer
BufLen(c, b) ==
  CASE b = "mem_left" -> c.fblen_left
    [] b = "mem_right" -> c.fblen_right
    [] b \in CanvasBufs -> VIRTUAL_WIDTH * VIRTUAL_HEIGHT * BYTES_PER_PIXEL
    [] OTHER -> 0

\* [p, p + n) lies inside the buffer p points into
InBuffer(c, p, n) ==
  n = 0 \/ (p.buf \in Surfaces \cup CanvasBufs /\ p.off >= 0 /\ p.off + n <= BufLen(c, p.buf))

----------------------------------------------------------------------------
(* dualscreen_flush_cb: the split of the dirty area and the two DMA        *)
(* configurations                                                          *)

Area(x1, y1, x2, y2) == [x1 |-> x1, y1 |-> y1, x2 |-> x2, y2 |-> y2]

\* (variant: the right screen is taken to begin one column early)
update_right_OneEarly(a) == a.x2 >= SCREEN_WIDTH - 1

\* bool update_right = (x2 >= SCREEN_WIDTH)
update_right(a) == a.x2 >= SCREEN_WIDTH

\* (variant: the left screen is taken to reach column SCREEN_WIDTH)
update_left_Inclusive(a) == a.x1 <= SCREEN_WIDTH

\* if (x1 < SCREEN_WIDTH): the area has columns on the left screen
update_left(a) == a.x1 < SCREEN_WIDTH

\* (variant: the left transfer never notifies)
notify_left_Never(a) == FALSE

\* sim_dma_transfer_2d(&dma_cfg, disp, !update_right, 0): the left transfer
\* notifies when no right transfer follows
notify_left(a) == ~update_right(a)

\* (variant: the left part is clamped to SCREEN_WIDTH, not SCREEN_WIDTH - 1)
LeftRect_ClampAtWidth(a) ==
  Area(a.x1, a.y1, IF a.x2 < SCREEN_WIDTH THEN a.x2 ELSE SCREEN_WIDTH, a.y2)

\* the part of the area on the left screen, in the left screen's coordinates
LeftRect(a) ==
  Area(a.x1, a.y1, IF a.x2 < SCREEN_WIDTH THEN a.x2 ELSE SCREEN_WIDTH - 1, a.y2)

\* (variant: x1 is not moved into the right screen's coordinates)
RightRect_Unshifted(a) ==
  Area(IF a.x1 >= SCREEN_WIDTH THEN a.x1 ELSE 0, a.y1, a.x2 - SCREEN_WIDTH, a.y2)

\* the part of the area on the right screen, in the right screen's coordinates
RightRect(a) ==
  Area(IF a.x1 >= SCREEN_WIDTH THEN a.x1 - SCREEN_WIDTH ELSE 0, a.y1,
       a.x2 - SCREEN_WIDTH, a.y2)

\* int32_t src_x1 = (x1 >= SCREEN_WIDTH) ? x1 : SCREEN_WIDTH
src_x1(a) == IF a.x1 >= SCREEN_WIDTH THEN a.x1 ELSE SCREEN_WIDTH

\* dma_cfg of the left transfer
LeftCfg(c, a, color_p) ==
  LET r == LeftRect(a)
      left_w == r.x2 - r.x1 + 1
      h == a.y2 - a.y1 + 1
  IN  [src |-> PtrAddInt(color_p, (a.y1 * VIRTUAL_WIDTH + a.x1) * BYTES_PER_PIXEL),
       dst |-> PtrAddInt(PtrAddU32([buf |-> "mem_left", off |-> 0],
                                   U32Mul(U32(a.y1), c.stride_left)),
                         r.x1 * BYTES_PER_PIXEL),
       width |-> U32(left_w),
       height |-> U32(h),
       src_stride |-> VIRTUAL_WIDTH * BYTES_PER_PIXEL,
       dst_stride |-> c.stride_left,
       bpp |-> BYTES_PER_PIXEL]

\* dma_cfg of the right transfer
RightCfg(c, a, color_p) ==
  LET r == RightRect(a)
      right_w == r.x2 - r.x1 + 1
      h == a.y2 - a.y1 + 1
  IN  [src |-> PtrAddInt(color_p, (a.y1 * VIRTUAL_WIDTH + src_x1(a)) * BYTES_PER_PIXEL),
       dst |-> PtrAddInt(PtrAddU32([buf |-> "mem_right", off |-> 0],
                                   U32Mul(U32(a.y1), c.stride_right)),
                         r.x1 * BYTES_PER_PIXEL),
       width |-> U32(right_w),
       height |-> U32(h),
       src_stride |-> VIRTUAL_WIDTH * BYTES_PER_PIXEL,
       dst_stride |-> c.stride_right,
       bpp |-> BYTES_PER_PIXEL]

\* the sim_dma_transfer_2d calls of one flush, in the order they are made
Submissions(c, a, color_p) ==
  (IF update_left(a)
     THEN <<[cfg |-> LeftCfg(c, a, color_p), notify |-> notify_left(a),
             req_idx |-> 0, surf |-> "mem_left", rect |-> LeftRect(a)]>>
     ELSE <<>>)
  \o
  (IF update_right(a)
     THEN <<[cfg |-> RightCfg(c, a, color_p), notify |-> TRUE,
             req_idx |-> 1, surf |-> "mem_right", rect |-> RightRect(a)]>>
     ELSE <<>>)

----------------------------------------------------------------------------
(* The work queue and sim_dma_transfer_2d                                  *)

\* the queue entries are the request slots (&req->work); job is the history's
\* number of the transfer the entry was queued for
Without(q, idx) == SelectSeq(q, LAMBDA e : e.req # idx)

InQueue(q, idx) == \E i \in DOMAIN q : q[i].req = idx

\* (variant: the item is put at the head of the queue)
work_queue_AtHead(q, idx, jid, accepted) ==
  IF accepted THEN <<[req |-> idx, job |-> jid]>> \o Without(q, idx) ELSE q

\* work_queue(HPWORK, &req->work, dma_worker, req, 0): a work item that is
\* still pending is taken out of the queue and queued again at the tail; a
\* rejected item is not queued
work_queue(q, idx, jid, accepted) ==
  IF accepted THEN Append(Without(q, idx), [req |-> idx, job |-> jid]) ELSE q

\* st = [dma_req, hpwork, jobs]; one call of sim_dma_transfer_2d for flush fid
sim_dma_transfer_2d(st, sub, fid, accepted) ==
  LET idx == sub.req_idx
      jid == Len(st.jobs) + 1
      marked == [j \in DOMAIN st.jobs |->
                   IF accepted /\ \E i \in DOMAIN st.hpwork :
                                     st.hpwork[i] = [req |-> idx, job |-> j]
                     THEN [st.jobs[j] EXCEPT !.st = "replaced"]
                     ELSE st.jobs[j]]
      rec == [fid |-> fid, slot |-> idx, surf |-> sub.surf, rect |-> sub.rect,
              cfg |-> sub.cfg, notify |-> sub.notify,
              st |-> IF accepted THEN "queued" ELSE "rejected",
              rows |-> 0]
  IN  [dma_req |-> [st.dma_req EXCEPT ![idx] =
                      [cfg |-> sub.cfg, disp |-> "disp", notify |-> sub.notify]],
       hpwork |-> work_queue(st.hpwork, idx, jid, accepted),
       jobs |-> Append(marked, rec)]

RECURSIVE SubmitAll(_, _, _, _)
SubmitAll(st, subs, fid, acc) ==
  IF subs = <<>> THEN st
  ELSE SubmitAll(sim_dma_transfer_2d(st, Head(subs), fid, acc[Head(subs).req_idx]),
                 Tail(subs), fid, acc)

----------------------------------------------------------------------------
(* The dirty areas explored                                                *)

XS == {0, 959, 960, 1919}
YRanges == {<<0, 1>>, <<719, 719>>}

\* the dirty rectangle (900,10)-(1020,20), which straddles the boundary
StraddleExample == Area(900, 10, 1020, 20)

\* 0 <= x1 <= x2 < VIRTUAL_WIDTH and 0 <= y1 <= y2 < VIRTUAL_HEIGHT
ValidArea(a) ==
  /\ 0 <= a.x1 /\ a.x1 <= a.x2 /\ a.x2 < VIRTUAL_WIDTH
  /\ 0 <= a.y1 /\ a.y1 <= a.y2 /\ a.y2 < VIRTUAL_HEIGHT

ValidAreas ==
  {Area(xr[1], yr[1], xr[2], yr[2]) : xr \in {p \in XS \X XS : p[1] <= p[2]},
                                      yr \in YRanges}
  \cup {StraddleExample}

\* areas that break the caller's contract: empty, inverted, or past the canvas
\* (coordinates stay non-negative, so every pointer built from them only grows)
InvalidAreas ==
  { Area(960, 10, 959, 20),      \* zero width at the boundary
    Area(900, 10, 899, 11),      \* zero width on the left screen
    Area(900, 719, 959, 718),    \* zero height
    Area(959, 0, 900, 0),        \* x2 < x1
    Area(900, 719, 1020, 717),   \* y2 < y1
    Area(1900, 719, 1920, 719),  \* x2 = VIRTUAL_WIDTH
    Area(0, 719, 10, 720),       \* y2 = VIRTUAL_HEIGHT
    Area(1920, 0, 1930, 1) }     \* wholly right of the canvas

\* three valid areas, one of each kind: the last row of the left screen, the
\* first two rows of the right screen, two rows across the boundary
FewAreas == {Area(0, 719, 959, 719), Area(960, 0, 1919, 1), Area(959, 0, 960, 1)}

AreasOf(caller) ==
  CASE caller = "lvgl" -> ValidAreas
    [] caller = "lvgl_few" -> FewAreas
    [] OTHER -> ValidAreas \cup InvalidAreas

----------------------------------------------------------------------------
(* Initial states                                                          *)

\* row strides <<left, right>> the framebuffer driver may report
\* (FBIOGET_PLANEINFO): packed rows, or rows padded to 4096 bytes
FbStrides == {<<SCREEN_WIDTH * BYTES_PER_PIXEL, SCREEN_WIDTH * BYTES_PER_PIXEL>>,
              <<4096, SCREEN_WIDTH * BYTES_PER_PIXEL>>}

ZeroCfg ==
  [src |-> NullPtr, dst |-> NullPtr, width |-> U32Zero, height |-> U32Zero,
   src_stride |-> 0, dst_stride |-> 0, bpp |-> 0]

\* static dualscreen_ctx_t g_ctx: dma_req[] starts zeroed
ZeroReq == [cfg |-> ZeroCfg, disp |-> "NULL", notify |-> FALSE]

IdleWorker ==
  [pc |-> "idle", req |-> 0, job |-> 0, s |-> NullPtr, d |-> NullPtr,
   line_bytes |-> U32Zero, h |-> U32Zero]

\* the descriptors a task has when it starts: stdin, stdout, stderr
StdFds == {0, 1, 2}

\* g_ctx after create_dualscreen_display has succeeded
Created(sl, sr) ==
  [fd_left |-> 3, fd_right |-> 4,
   mem_left |-> "mem_left", mem_right |-> "mem_right",
   stride_left |-> sl, stride_right |-> sr,
   fblen_left |-> sl * SCREEN_HEIGHT, fblen_right |-> sr * SCREEN_HEIGHT,
   draw_buf |-> "draw_buf", draw_buf2 |-> "draw_buf2",
   dma_req |-> [i \in 0..1 |-> ZeroReq]]

\* the process after create_dualscreen_display has succeeded: what is open,
\* mapped and allocated, the display, and the history of the handles
\* acquired (opened, mapped, malloced) and of the calls releasing them
Running ==
  [open |-> StdFds \cup {3, 4}, maps |-> Surfaces, heap |-> CanvasBufs,
   disp |-> "live",
   opened |-> {3, 4}, mapped |-> Surfaces, malloced |-> CanvasBufs,
   closed |-> <<>>, unmapped |-> <<>>, freed |-> <<>>]

\* main in its loop, calling lv_timer_handler
InLoop == [pc |-> "loop", disp |-> "disp"]

InitWith(caller, wq) ==
  /\ \E g \in FbStrides : ctx = Created(g[1], g[2])
  /\ hpwork = <<>>
  /\ worker = [w \in 1..MaxWorkers |-> IdleWorker]
  /\ fb = [b \in Surfaces |-> {}]
  /\ canvas = [b \in CanvasBufs |-> 0]
  /\ buf_act = "draw_buf"
  /\ flushing = FALSE
  /\ flushes = <<>>
  /\ jobs = <<>>
  /\ ready = <<>>
  /\ fault = {}
  /\ crashed = FALSE
  /\ \E n \in 1..MaxWorkers : env = [caller |-> caller, wq |-> wq, hpnthreads |-> n]
  /\ os = Running
  /\ main = InLoop

\* LVGL is the caller (valid areas) and the queue accepts every item
Init == InitWith("lvgl", "accepts")

----------------------------------------------------------------------------
(* The flush callback, as LVGL's refresh calls it                          *)

OtherBuf(b) == IF b = "draw_buf" THEN "draw_buf2" ELSE "draw_buf"

WqAnswers == IF env.wq = "accepts" THEN {TRUE} ELSE BOOLEAN

\* LVGL waits until the previous flush is ready, renders the frame into the
\* active canvas buffer, raises disp->flushing, calls the flush callback with
\* the dirty area and that buffer, and swaps the two buffers
dualscreen_flush_cb ==
  /\ ~crashed
  /\ main.pc = "loop"
  /\ ~flushing
  /\ Len(flushes) < MaxFlushes
  /\ \E a \in AreasOf(env.caller), acc \in [0..1 -> WqAnswers] :
       LET fid == Len(flushes) + 1
           color_p == [buf |-> buf_act, off |-> 0]
           st == SubmitAll([dma_req |-> ctx.dma_req, hpwork |-> hpwork, jobs |-> jobs],
                           Submissions(ctx, a, color_p), fid, acc)
       IN  /\ canvas' = [canvas EXCEPT ![buf_act] = fid]
           /\ buf_act' = OtherBuf(buf_act)
           /\ flushing' = TRUE
           /\ flushes' = Append(flushes, [area |-> a, color_p |-> buf_act, frame |-> fid])
           /\ ctx' = [ctx EXCEPT !.dma_req = st.dma_req]
           /\ hpwork' = st.hpwork
           /\ jobs' = st.jobs
  /\ UNCHANGED <<worker, fb, ready, fault, crashed, env, os, main>>

----------------------------------------------------------------------------
(* The work queue thread and dma_worker                                    *)

\* an HPWORK thread takes the oldest pending item and calls its worker
work_thread(w) ==
  /\ ~crashed
  /\ w <= env.hpnthreads
  /\ worker[w].pc = "idle"
  /\ \A v \in 1..(w - 1) : worker[v].pc # "idle"   \* the threads are alike
  /\ hpwork # <<>>
  /\ LET e == Head(hpwork)
     IN  /\ worker' = [worker EXCEPT ![w] = [IdleWorker EXCEPT !.pc = "entry",
                                              !.req = e.req, !.job = e.job]]
         /\ jobs' = [jobs EXCEPT ![e.job].st = "running"]
  /\ hpwork' = Tail(hpwork)
  /\ UNCHANGED <<ctx, fb, canvas, buf_act, flushing, flushes, ready, fault, crashed, env,
                 os, main>>

\* dma_worker, its first lines: the locals s, d, line_bytes and h
dma_worker_entry(w) ==
  /\ ~crashed
  /\ worker[w].pc = "entry"
  /\ LET cfg == ctx.dma_req[worker[w].req].cfg
         h == cfg.height
     IN  worker' = [worker EXCEPT ![w].s = cfg.src,
                                  ![w].d = cfg.dst,
                                  ![w].line_bytes = U32Mul(cfg.width, cfg.bpp),
                                  ![w].h = h,
                                  ![w].pc = IF h = U32Zero THEN "notify" ELSE "loop"]
  /\ UNCHANGED <<ctx, hpwork, fb, canvas, buf_act, flushing, flushes, jobs, ready,
                 fault, crashed, env, os, main>>

\* A framebuffer is the set of the byte runs written into it: the len bytes
\* at off hold the bytes at soff of canvas buffer src as rendered for frame.
\* What is left of the runs once [off, off + n) is overwritten:
Overwritten(runs, off, n) ==
  {[e EXCEPT !.len = off - e.off] : e \in {e \in runs : e.off < off /\ off < e.off + e.len}}
  \cup
  {[e EXCEPT !.off = off + n, !.len = e.off + e.len - (off + n),
             !.soff = e.soff + (off + n - e.off)] :
     e \in {e \in runs : e.off < off + n /\ off + n < e.off + e.len}}
  \cup
  {e \in runs : e.off + e.len <= off \/ off + n <= e.off}

\* what memcpy(d, s, n) does to the framebuffers: the n bytes at d now hold
\* the n bytes of the canvas at s
memcpy(mem, d, s, n) ==
  IF n = 0 THEN mem
  ELSE [mem EXCEPT ![d.buf] =
          Overwritten(@, d.off, n)
          \cup {[off |-> d.off, len |-> n, src |-> s.buf, frame |-> canvas[s.buf],
                  soff |-> s.off]}]

\* the accesses of memcpy(d, s, line_bytes) that are undefined: they leave
\* their buffer, or the buffer has been freed or unmapped
Strays(c, d, s, line_bytes) ==
  IF ~U32Fits(line_bytes) THEN {"read", "write"}
  ELSE (IF s.buf \in CanvasBufs /\ InBuffer(c, s, U32Val(line_bytes))
          THEN {} ELSE {"read"})
       \cup
       (IF d.buf \in Surfaces /\ InBuffer(c, d, U32Val(line_bytes))
          THEN {} ELSE {"write"})
       \cup
       (IF s.buf \in CanvasBufs \ os.heap THEN {"read_freed"} ELSE {})
       \cup
       (IF d.buf \in Surfaces \ os.maps THEN {"write_unmapped"} ELSE {})

\* (variant: both pointers move on by the source stride)
NextRow_OneStride(wk, cfg) ==
  [wk EXCEPT !.s = PtrAddInt(wk.s, cfg.src_stride),
             !.d = PtrAddInt(wk.d, cfg.src_stride)]

\* s += req->cfg.src_stride; d += req->cfg.dst_stride
NextRow(wk, cfg) ==
  [wk EXCEPT !.s = PtrAddInt(wk.s, cfg.src_stride),
             !.d = PtrAddInt(wk.d, cfg.dst_stride)]

\* dma_worker, one turn of while (h--): one row copied, both pointers moved
\* on by their strides.  A copy that leaves a buffer is undefined: it stops
\* the process, or it goes through and so do the remaining rows, which lie
\* further out still.
dma_worker_row(w) ==
  /\ ~crashed
  /\ worker[w].pc = "loop"
  /\ LET wk == worker[w]
         cfg == ctx.dma_req[wk.req].cfg
         strays == IF wk.line_bytes = U32Zero THEN {}
                   ELSE Strays(ctx, wk.d, wk.s, wk.line_bytes)
         h1 == U32Dec(wk.h)
     IN  \E outcome \in IF strays = {} THEN {"copied"} ELSE {"stopped", "strayed"} :
           /\ fb' = IF outcome = "copied"
                      THEN memcpy(fb, wk.d, wk.s, U32Val(wk.line_bytes))
                      ELSE fb
           /\ fault' = fault \cup strays
           /\ crashed' = (outcome = "stopped")
           /\ jobs' = IF outcome = "copied"
                        THEN [jobs EXCEPT ![wk.job].rows = @ + 1]
                        ELSE jobs
           /\ worker' = IF outcome = "copied"
                          THEN [worker EXCEPT ![w] =
                                  [NextRow(wk, cfg) EXCEPT
                                     !.h = h1,
                                     !.pc = IF h1 = U32Zero THEN "notify" ELSE "loop"]]
                          ELSE [worker EXCEPT ![w].h = U32Zero, ![w].pc = "notify"]
  /\ UNCHANGED <<ctx, hpwork, canvas, buf_act, flushing, flushes, ready, env, os, main>>

\* the transfers of flush fid that have not been carried out
Unfinished(js, fid) == {j \in DOMAIN js : js[j].fid = fid /\ js[j].st # "done"}

\* dma_worker, its end: if (req->notify && req->disp) lv_display_flush_ready,
\* which clears disp->flushing.  On a display that lv_display_delete has
\* freed the call is undefined: it stops the process, or it returns.
dma_worker_notify(w) ==
  /\ ~crashed
  /\ worker[w].pc = "notify"
  /\ LET wk == worker[w]
         req == ctx.dma_req[wk.req]
         called == req.notify /\ req.disp # "NULL"
         done == [jobs EXCEPT ![wk.job].st = "done"]
         dangling == called /\ os.disp # "live"
     IN  \E outcome \in IF dangling THEN {"stopped", "returned"} ELSE {"returned"} :
           /\ jobs' = done
           /\ flushing' = IF called /\ ~dangling THEN FALSE ELSE flushing
           /\ ready' = IF called /\ ~dangling
                         THEN Append(ready, [by |-> wk.job, fid |-> Len(flushes),
                                             pending |-> flushing,
                                             unfinished |-> Unfinished(done, Len(flushes))])
                         ELSE ready
           /\ fault' = IF dangling THEN fault \cup {"disp_deleted"} ELSE fault
           /\ crashed' = (outcome = "stopped")
           /\ worker' = [worker EXCEPT ![w] = IdleWorker]
  /\ UNCHANGED <<ctx, hpwork, fb, canvas, buf_act, flushes, env, os, main>>

----------------------------------------------------------------------------
(* The calls that acquire and release: open, close, mmap, munmap, malloc,  *)
(* free.  ok is the environment's answer: whether the call succeeds.       *)

\* the lowest descriptor that is not open
LowestFree(S) ==
  CHOOSE n \in 0 .. Cardinality(S) : n \notin S /\ \A m \in 0 .. (n - 1) : m \in S

open(o, ok) ==
  LET fd == LowestFree(o.open)
  IN  IF ok THEN [os |-> [o EXCEPT !.open = @ \cup {fd}, !.opened = @ \cup {fd}],
                  ret |-> fd]
      ELSE [os |-> o, ret |-> -1]

close(o, fd) == [o EXCEPT !.open = @ \ {fd}, !.closed = Append(@, fd)]

\* the mapping of /dev/fb0 is the memory "mem_left", of /dev/fb1 "mem_right"
mmap(o, path, ok) ==
  LET p == IF path = "/dev/fb0" THEN "mem_left" ELSE "mem_right"
  IN  IF ok THEN [os |-> [o EXCEPT !.maps = @ \cup {p}, !.mapped = @ \cup {p}],
                  ret |-> p]
      ELSE [os |-> o, ret |-> "MAP_FAILED"]

munmap(o, p) == [o EXCEPT !.maps = @ \ {p}, !.unmapped = Append(@, p)]

\* the two blocks the program allocates are the memories "draw_buf", "draw_buf2"
malloc(o, ok) ==
  LET p == IF "draw_buf" \in o.heap THEN "draw_buf2" ELSE "draw_buf"
  IN  IF ok THEN [os |-> [o EXCEPT !.heap = @ \cup {p}, !.malloced = @ \cup {p}],
                  ret |-> p]
      ELSE [os |-> o, ret |-> "NULL"]

free(o, p) == [o EXCEPT !.heap = @ \ {p}, !.freed = Append(@, p)]

----------------------------------------------------------------------------
(* init_framebuffer and create_dualscreen_display                          *)

\* what may fail while the display is created: a step of init_framebuffer on
\* one device, a malloc, lv_display_create, or nothing
Failures ==
  ({"/dev/fb0", "/dev/fb1"} \X {"open", "vinfo", "pinfo", "mmap"})
  \cup {<<"malloc", "draw_buf">>, <<"malloc", "draw_buf2">>,
        <<"lv_display_create", "disp">>, <<"none", "none">>}

\* the geometries <<left, right>> FBIOGET_PLANEINFO may report (pinfo.stride,
\* pinfo.fblen): two 960x720 ARGB8888 panels, or a left panel of 960x720
\* RGB565.  init_framebuffer takes them as they come.
FbInfos ==
  LET argb == [stride |-> SCREEN_WIDTH * BYTES_PER_PIXEL,
               fblen |-> SCREEN_WIDTH * BYTES_PER_PIXEL * SCREEN_HEIGHT]
      rgb565 == [stride |-> SCREEN_WIDTH * 2, fblen |-> SCREEN_WIDTH * 2 * SCREEN_HEIGHT]
  IN  {<<argb, argb>>, <<rgb565, argb>>}

\* the fields of g_ctx that create_dualscreen_display passes for a device
Fields(path) ==
  IF path = "/dev/fb0"
    THEN [fd |-> "fd_left", mem |-> "mem_left", stride |-> "stride_left",
          fblen |-> "fblen_left"]
    ELSE [fd |-> "fd_right", mem |-> "mem_right", stride |-> "stride_right",
          fblen |-> "fblen_right"]

\* st = [ctx, os]; fail is the step that fails, info what the device reports
init_framebuffer(st, path, fail, info) ==
  LET f == Fields(path)
      step == IF fail[1] = path THEN fail[2] ELSE "none"
      o == open(st.os, step # "open")
      c1 == [st.ctx EXCEPT ![f.fd] = o.ret]
      m == mmap(o.os, path, step # "mmap")
      c2 == [c1 EXCEPT ![f.mem] = m.ret]
  IN  IF o.ret < 0 THEN [ctx |-> c1, os |-> o.os, ret |-> -1]
      ELSE IF step \in {"vinfo", "pinfo"}
        THEN [ctx |-> c1, os |-> close(o.os, o.ret), ret |-> -1]
      ELSE IF m.ret = "MAP_FAILED"
        THEN [ctx |-> c2, os |-> close(m.os, o.ret), ret |-> -1]
      ELSE [ctx |-> [c2 EXCEPT ![f.stride] = info.stride, ![f.fblen] = info.fblen],
            os |-> m.os, ret |-> 0]

\* munmap(ctx->mem_left, ...); close(ctx->fd_left)
ReleaseLeft(o, c) == close(munmap(o, c.mem_left), c.fd_left)

\* (variant: the right framebuffer is left mapped and open)
ReleaseBoth_LeftOnly(o, c) == close(munmap(o, c.mem_left), c.fd_left)

\* munmap of both framebuffers, then close of both descriptors
ReleaseBoth(o, c) ==
  close(close(munmap(munmap(o, c.mem_left), c.mem_right), c.fd_left), c.fd_right)

\* create_dualscreen_display on st = [ctx, os]: the context, the process and
\* the display it returns
Create(st, fail, infos) ==
  LET s1 == init_framebuffer(st, "/dev/fb0", fail, infos[1])
      s2 == init_framebuffer(s1, "/dev/fb1", fail, infos[2])
      b1 == malloc(s2.os, fail # <<"malloc", "draw_buf">>)
      c3 == [s2.ctx EXCEPT !.draw_buf = b1.ret]
      b2 == malloc(b1.os, fail # <<"malloc", "draw_buf2">>)
      c4 == [c3 EXCEPT !.draw_buf2 = b2.ret]
  IN  IF s1.ret < 0 THEN [ctx |-> s1.ctx, os |-> s1.os, disp |-> "NULL"]
      ELSE IF s2.ret < 0
        THEN [ctx |-> s2.ctx, os |-> ReleaseLeft(s2.os, s2.ctx), disp |-> "NULL"]
      ELSE IF b1.ret = "NULL"
        THEN [ctx |-> c3, os |-> ReleaseBoth(b1.os, c3), disp |-> "NULL"]
      ELSE IF b2.ret = "NULL"
        THEN [ctx |-> c4, os |-> ReleaseBoth(free(b2.os, c4.draw_buf), c4),
              disp |-> "NULL"]
      ELSE IF fail = <<"lv_display_create", "disp">>
        THEN [ctx |-> c4,
              os |-> ReleaseBoth(free(free(b2.os, c4.draw_buf), c4.draw_buf2), c4),
              disp |-> "NULL"]
      ELSE [ctx |-> c4, os |-> [b2.os EXCEPT !.disp = "live"], disp |-> "disp"]

\* main: disp = create_dualscreen_display(); if (!disp) ... return 1
create_dualscreen_display ==
  /\ main.pc = "start"
  /\ \E fail \in Failures, infos \in FbInfos :
       LET r == Create([ctx |-> ctx, os |-> os], fail, infos)
       IN  /\ ctx' = r.ctx
           /\ os' = r.os
           /\ main' = [pc |-> IF r.disp = "NULL" THEN "failed" ELSE "loop",
                       disp |-> r.disp]
  /\ UNCHANGED <<hpwork, worker, fb, canvas, buf_act, flushing, flushes, jobs, ready,
                 fault, crashed, env>>

----------------------------------------------------------------------------
(* destroy_dualscreen_display                                              *)

\* st = [ctx, os, fault, stop].  if (ctx->f) { free(ctx->f); ctx->f = NULL; }
\* Freeing a block that is not allocated is undefined: it stops the process
\* or it returns.
FreeField(st, f, outcome) ==
  LET p == st.ctx[f]
      live == p \in st.os.heap
  IN  IF st.stop \/ p = "NULL" THEN st
      ELSE IF ~live /\ outcome = "stopped"
        THEN [st EXCEPT !.os = free(@, p), !.fault = @ \cup {"free"}, !.stop = TRUE]
      ELSE [st EXCEPT !.os = free(@, p), !.ctx[f] = "NULL",
                      !.fault = IF live THEN @ ELSE @ \cup {"free"}]

\* if (ctx->f) { munmap(ctx->f, ...); ctx->f = NULL; }
UnmapField(st, f) ==
  IF st.stop \/ st.ctx[f] = "NULL" THEN st
  ELSE [st EXCEPT !.os = munmap(@, st.ctx[f]), !.ctx[f] = "NULL"]

\* if (ctx->f >= 0) { close(ctx->f); ctx->f = -1; }
CloseField(st, f) ==
  IF st.stop \/ st.ctx[f] < 0 THEN st
  ELSE [st EXCEPT !.os = close(@, st.ctx[f]), !.ctx[f] = -1]

\* destroy_dualscreen_display(disp), called once create_dualscreen_display
\* has returned: after the main loop, after a creation that failed, or once
\* more after a teardown.  The caller passes the display while it exists and
\* NULL otherwise.  Nothing in it waits for the work queue.
destroy_dualscreen_display ==
  /\ ~crashed
  /\ main.pc \in {"failed", "loop", "exit"}
  /\ LET disp == IF os.disp = "live" THEN main.disp ELSE "NULL"
         s0 == [ctx |-> ctx,
                os |-> IF disp # "NULL" THEN [os EXCEPT !.disp = "deleted"] ELSE os,
                fault |-> fault, stop |-> FALSE]
         stale == {f \in {"draw_buf", "draw_buf2"} :
                     ctx[f] # "NULL" /\ ctx[f] \notin os.heap}
     IN  \E outcome \in IF stale = {} THEN {"returned"} ELSE {"stopped", "returned"} :
           LET s1 == FreeField(s0, "draw_buf", outcome)
               s2 == FreeField(s1, "draw_buf2", outcome)
               s3 == UnmapField(s2, "mem_left")
               s4 == UnmapField(s3, "mem_right")
               s5 == CloseField(s4, "fd_left")
               s6 == CloseField(s5, "fd_right")
           IN  /\ ctx' = s6.ctx
               /\ os' = s6.os
               /\ fault' = s6.fault
               /\ crashed' = s6.stop
               /\ main' = [main EXCEPT !.pc = "exit"]
  /\ UNCHANGED <<hpwork, worker, fb, canvas, buf_act, flushing, flushes, jobs, ready, env>>

----------------------------------------------------------------------------
(* Specifications                                                          *)

Next ==
  \/ dualscreen_flush_cb
  \/ \E w \in 1..MaxWorkers : work_thread(w)
  \/ \E w \in 1..MaxWorkers : dma_worker_entry(w)
  \/ \E w \in 1..MaxWorkers : dma_worker_row(w)
  \/ \E w \in 1..MaxWorkers : dma_worker_notify(w)

Spec == Init /\ [][Next]_vars

\* any caller: the dirty area may break the contract of the flush callback
InitAny == InitWith("any", "accepts")
SpecAny == InitAny /\ [][Next]_vars

\* the work queue may reject an item (work_queue returns a negated errno)
InitReject == InitWith("lvgl", "may_reject")
SpecReject == InitReject /\ [][Next]_vars

\* The HPWORK threads are kernel threads of high priority: a thread that can
\* take a pending item, or go on with the dma_worker call it is in, does so.
\* LVGL flushes one of three valid areas; nothing makes it flush again.
InitFair == InitWith("lvgl_few", "accepts")

Fairness ==
  \A w \in 1..MaxWorkers :
    /\ WF_vars(work_thread(w))
    /\ WF_vars(dma_worker_entry(w))
    /\ WF_vars(dma_worker_row(w))
    /\ WF_vars(dma_worker_notify(w))

SpecFair == InitFair /\ [][Next]_vars /\ Fairness

\* dma_worker on its own: one request with a configuration of any shape is
\* pending when the run begins.  The rows do not overlap (width * bpp is at
\* most dst_stride) and lie inside both buffers.
DmaCfgs ==
  {[src |-> [buf |-> "draw_buf", off |-> so],
    dst |-> [buf |-> "mem_left", off |-> do],
    width |-> U32(wd), height |-> U32(ht),
    src_stride |-> ss, dst_stride |-> ds, bpp |-> bpp] :
     so \in {0, 400}, do \in {0, 7720}, wd \in {1, 100}, ht \in {1, 50},
     ss \in {4096, VIRTUAL_WIDTH * BYTES_PER_PIXEL},
     ds \in {SCREEN_WIDTH * BYTES_PER_PIXEL, 4096}, bpp \in {2, BYTES_PER_PIXEL}}

InitDma ==
  /\ \E g \in FbStrides, cfg \in DmaCfgs, notify \in BOOLEAN :
       /\ ctx = [Created(g[1], g[2]) EXCEPT
                   !.dma_req[0] = [cfg |-> cfg, disp |-> "disp", notify |-> notify]]
       /\ jobs = <<[fid |-> 0, slot |-> 0, surf |-> cfg.dst.buf,
                    rect |-> Area(0, 0, U32Val(cfg.width) - 1, U32Val(cfg.height) - 1),
                    cfg |-> cfg, notify |-> notify, st |-> "queued", rows |-> 0]>>
  /\ hpwork = <<[req |-> 0, job |-> 1]>>
  /\ worker = [w \in 1..MaxWorkers |-> IdleWorker]
  /\ fb = [b \in Surfaces |-> {}]
  /\ canvas = [b \in CanvasBufs |-> 0]
  /\ buf_act = "draw_buf"
  /\ flushing = TRUE
  /\ flushes = <<>>
  /\ ready = <<>>
  /\ fault = {}
  /\ crashed = FALSE
  /\ \E n \in 1..MaxWorkers : env = [caller |-> "lvgl", wq |-> "accepts", hpnthreads |-> n]
  /\ os = Running
  /\ main = InLoop

NextDma ==
  \/ \E w \in 1..MaxWorkers : work_thread(w)
  \/ \E w \in 1..MaxWorkers : dma_worker_entry(w)
  \/ \E w \in 1..MaxWorkers : dma_worker_row(w)
  \/ \E w \in 1..MaxWorkers : dma_worker_notify(w)

SpecDma == InitDma /\ [][NextDma]_vars

\* static dualscreen_ctx_t g_ctx: every field is zero when the task starts
Static ==
  [fd_left |-> 0, fd_right |-> 0, mem_left |-> "NULL", mem_right |-> "NULL",
   stride_left |-> 0, stride_right |-> 0, fblen_left |-> 0, fblen_right |-> 0,
   draw_buf |-> "NULL", draw_buf2 |-> "NULL",
   dma_req |-> [i \in 0..1 |-> ZeroReq]]

\* the process when main is entered: nothing opened, mapped or allocated yet
Fresh ==
  [open |-> StdFds, maps |-> {}, heap |-> {}, disp |-> "none",
   opened |-> {}, mapped |-> {}, malloced |-> {},
   closed |-> <<>>, unmapped |-> <<>>, freed |-> <<>>]

\* the whole life of the program: main creates the display, LVGL flushes
\* (one of three valid areas) from the main loop, the display is torn down
InitLife ==
  /\ ctx = Static
  /\ os = Fresh
  /\ main = [pc |-> "start", disp |-> "NULL"]
  /\ hpwork = <<>>
  /\ worker = [w \in 1..MaxWorkers |-> IdleWorker]
  /\ fb = [b \in Surfaces |-> {}]
  /\ canvas = [b \in CanvasBufs |-> 0]
  /\ buf_act = "draw_buf"
  /\ flushing = FALSE
  /\ flushes = <<>>
  /\ jobs = <<>>
  /\ ready = <<>>
  /\ fault = {}
  /\ crashed = FALSE
  /\ \E n \in 1..MaxWorkers :
       env = [caller |-> "lvgl_few", wq |-> "accepts", hpnthreads |-> n]

NextLife ==
  \/ create_dualscreen_display
  \/ destroy_dualscreen_display
  \/ dualscreen_flush_cb
  \/ \E w \in 1..MaxWorkers : work_thread(w)
  \/ \E w \in 1..MaxWorkers : dma_worker_entry(w)
  \/ \E w \in 1..MaxWorkers : dma_worker_row(w)
  \/ \E w \in 1..MaxWorkers : dma_worker_notify(w)

SpecLife == InitLife /\ [][NextLife]_vars

----------------------------------------------------------------------------
(* Reading the history                                                     *)

\* the transfers flush fid submitted
JobsOf(fid) == {j \in DOMAIN jobs : jobs[j].fid = fid}

\* the lv_display_flush_ready calls made by the transfers of flush fid
CallsBy(fid) == {i \in DOMAIN ready : jobs[ready[i].by].fid = fid}

\* how the area lies with respect to the boundary x = SCREEN_WIDTH
Straddles(a) == ValidArea(a) /\ a.x1 < SCREEN_WIDTH /\ SCREEN_WIDTH <= a.x2
LeftOnly(a) == ValidArea(a) /\ a.x2 < SCREEN_WIDTH
RightOnly(a) == ValidArea(a) /\ a.x1 >= SCREEN_WIDTH

RectWidth(r) == r.x2 - r.x1 + 1
RectHeight(r) == r.y2 - r.y1 + 1

\* two non-empty rectangles with the same rows, l ending on the column
\* before the one r begins on, are disjoint and together make up exactly a
Tiles(l, r, a) ==
  /\ l.x1 <= l.x2 /\ r.x1 <= r.x2
  /\ l.y1 = a.y1 /\ l.y2 = a.y2 /\ r.y1 = a.y1 /\ r.y2 = a.y2
  /\ l.x1 = a.x1 /\ l.x2 + 1 = r.x1 /\ r.x2 = a.x2

\* a rectangle local to a surface, moved back to canvas coordinates
ToCanvas(surf, r) ==
  LET origin == IF surf = "mem_left" THEN 0 ELSE SCREEN_WIDTH
  IN  Area(r.x1 + origin, r.y1, r.x2 + origin, r.y2)

Stride(surf) == IF surf = "mem_left" THEN ctx.stride_left ELSE ctx.stride_right

\* the transfer's configuration is the one of its rectangle: width, height
\* and the destination of the rectangle's first pixel in the surface
CfgOfRect(j) ==
  /\ j.cfg.width = U32(RectWidth(j.rect))
  /\ j.cfg.height = U32(RectHeight(j.rect))
  /\ j.cfg.dst = [buf |-> j.surf,
                  off |-> j.rect.y1 * Stride(j.surf) + j.rect.x1 * BYTES_PER_PIXEL]
  /\ j.cfg.dst_stride = Stride(j.surf)

Max(a, b) == IF a >= b THEN a ELSE b
Min(a, b) == IF a <= b THEN a ELSE b

\* the number of bytes of [off, off + n) that the runs of S cover
RECURSIVE Covered(_, _, _)
Covered(S, off, n) ==
  IF S = {} THEN 0
  ELSE LET e == CHOOSE x \in S : TRUE
       IN  Max(0, Min(e.off + e.len, off + n) - Max(e.off, off))
           + Covered(S \ {e}, off, n)

\* every byte of [off, off + n) of the surface holds the byte of canvas
\* buffer buf, as rendered for frame, that lies at the same distance from
\* soff: the runs with that source and that displacement cover the range
Holds(surf, off, n, buf, frame, soff) ==
  LET good == {e \in fb[surf] : e.src = buf /\ e.frame = frame
                                 /\ e.soff - e.off = soff - off}
  IN  Covered(good, off, n) = n

\* row y of the area, from column xa to column xb of the canvas, is in place
\* in the surface the columns belong to
RowInPlace(f, surf, y, xa, xb) ==
  LET origin == IF surf = "mem_left" THEN 0 ELSE SCREEN_WIDTH
  IN  Holds(surf, y * Stride(surf) + (xa - origin) * BYTES_PER_PIXEL,
            (xb - xa + 1) * BYTES_PER_PIXEL,
            flushes[f].color_p, flushes[f].frame,
            (y * VIRTUAL_WIDTH + xa) * BYTES_PER_PIXEL)

\* every pixel (x, y) of the area of flush f is in surface 0 at (x, y) when
\* x < SCREEN_WIDTH and in surface 1 at (x - SCREEN_WIDTH, y) otherwise
InPlace(f) ==
  LET a == flushes[f].area
  IN  \A y \in a.y1 .. a.y2 :
        /\ a.x1 < SCREEN_WIDTH =>
             RowInPlace(f, "mem_left", y, a.x1, Min(a.x2, SCREEN_WIDTH - 1))
        /\ a.x2 >= SCREEN_WIDTH =>
             RowInPlace(f, "mem_right", y, Max(a.x1, SCREEN_WIDTH), a.x2)

\* the flush requested last has been reported complete to LVGL
Completed(f) == f = Len(flushes) /\ ~flushing /\ \E i \in DOMAIN ready : ready[i].fid = f

----------------------------------------------------------------------------
(* Claims                                                                  *)

\* C1: whenever lv_display_flush_ready is called for a flush, every transfer
\* that flush submitted has finished copying its rows, whatever the order in
\* which the work queue threads run and finish the transfers.
C1_ReadyAfterAllTransfers ==
  \A i \in DOMAIN ready : ready[i].unfinished = {}

\* C2: the transfers of one flush call lv_display_flush_ready at most once,
\* and exactly once when all of them have run.
C2_ReadyExactlyOnce ==
  \A f \in DOMAIN flushes :
    /\ Cardinality(CallsBy(f)) <= 1
    /\ (\A j \in JobsOf(f) : jobs[j].st = "done") => Cardinality(CallsBy(f)) = 1

\* C3: a flush of an area that straddles x = 960 submits exactly two
\* transfers: columns x1..959 of surface 0 and columns 0..x2-960 of surface 1,
\* both with rows y1..y2; the widths add up to the width of the area and the
\* two rectangles, moved back to the canvas, are disjoint and cover the area.
\* (900,10)-(1020,20) gives (900,10)-(959,20) and (0,10)-(60,20).
C3_StraddleSplitsInTwo ==
  \A f \in DOMAIN flushes :
    LET a == flushes[f].area
    IN  Straddles(a) =>
          \E l \in JobsOf(f), r \in JobsOf(f) :
            /\ JobsOf(f) = {l, r} /\ l # r
            /\ jobs[l].surf = "mem_left" /\ jobs[l].slot = 0
            /\ jobs[r].surf = "mem_right" /\ jobs[r].slot = 1
            /\ jobs[l].rect = Area(a.x1, a.y1, 959, a.y2)
            /\ jobs[r].rect = Area(0, a.y1, a.x2 - 960, a.y2)
            /\ CfgOfRect(jobs[l]) /\ CfgOfRect(jobs[r])
            /\ RectWidth(jobs[l].rect) + RectWidth(jobs[r].rect) = RectWidth(a)
            /\ Tiles(ToCanvas("mem_left", jobs[l].rect),
                     ToCanvas("mem_right", jobs[r].rect), a)
            /\ a = Area(900, 10, 1020, 20) =>
                 /\ jobs[l].rect = Area(900, 10, 959, 20)
                 /\ jobs[r].rect = Area(0, 10, 60, 20)

\* C3 witness: the area (900,10)-(1020,20) has been flushed in two transfers
C3_Witness ==
  \E f \in DOMAIN flushes :
    flushes[f].area = Area(900, 10, 1020, 20) /\ Cardinality(JobsOf(f)) = 2

\* C4: a flush of an area wholly left of x = 960 submits exactly one
\* transfer, to surface 0, with the canvas coordinates unchanged, and none to
\* surface 1.
C4_LeftOnlyOneTransfer ==
  \A f \in DOMAIN flushes :
    LET a == flushes[f].area
    IN  LeftOnly(a) =>
          \E l \in JobsOf(f) :
            /\ JobsOf(f) = {l}
            /\ jobs[l].surf = "mem_left" /\ jobs[l].slot = 0
            /\ jobs[l].rect = a
            /\ CfgOfRect(jobs[l])

\* C4 witness: an area that ends on the last column of surface 0 was flushed
C4_Witness ==
  \E f \in DOMAIN flushes :
    /\ LeftOnly(flushes[f].area) /\ flushes[f].area.x2 = 959
    /\ \E l \in JobsOf(f) : jobs[l].surf = "mem_left"

\* C5: a flush of an area wholly right of x = 960 submits exactly one
\* transfer, to surface 1, with columns x1-960..x2-960 and rows y1..y2, and
\* none to surface 0.
C5_RightOnlyOneTransfer ==
  \A f \in DOMAIN flushes :
    LET a == flushes[f].area
    IN  RightOnly(a) =>
          \E r \in JobsOf(f) :
            /\ JobsOf(f) = {r}
            /\ jobs[r].surf = "mem_right" /\ jobs[r].slot = 1
            /\ jobs[r].rect = Area(a.x1 - 960, a.y1, a.x2 - 960, a.y2)
            /\ CfgOfRect(jobs[r])

\* C5 witness: an area right of the boundary, not starting on it, was flushed
C5_Witness ==
  \E f \in DOMAIN flushes :
    /\ RightOnly(flushes[f].area) /\ flushes[f].area.x1 > 960
    /\ \E r \in JobsOf(f) : jobs[r].surf = "mem_right"

\* C6: once a flush of a valid area has been reported complete, every pixel
\* (x, y) of the area is in surface 0 at (x, y) when x < 960 and in surface 1
\* at (x - 960, y) when x >= 960.
C6_CompletedFlushInPlace ==
  \A f \in DOMAIN flushes :
    (Completed(f) /\ ValidArea(flushes[f].area)) => InPlace(f)

\* the rows 0..k-1 of a transfer with configuration cfg, as byte runs of
\* the destination: row i is width * bpp bytes read at src + i * src_stride
\* and written at dst + i * dst_stride
RowsOf(cfg, k) ==
  {[off |-> cfg.dst.off + i * cfg.dst_stride,
    len |-> U32Val(cfg.width) * cfg.bpp,
    src |-> cfg.src.buf, frame |-> canvas[cfg.src.buf],
    soff |-> cfg.src.off + i * cfg.src_stride] : i \in 0 .. (k - 1)}

\* C7: a transfer copies exactly height rows of width * bpp bytes, row i from
\* src + i * src_stride to dst + i * dst_stride, each with its own stride,
\* and writes nothing outside [dst, dst + (height-1) * dst_stride + width * bpp).
\* With width 100, height 50, bpp 4 and strides 4096 and 3840 it copies 50
\* rows of 400 bytes inside [dst, dst + 49 * 3840 + 400).
C7_RowsCopiedByStride ==
  \A j \in DOMAIN jobs :
    LET cfg == jobs[j].cfg
        h == U32Val(cfg.height)
        n == U32Val(cfg.width) * cfg.bpp
        other == CHOOSE b \in Surfaces : b # cfg.dst.buf
    IN  /\ jobs[j].rows <= h
        /\ jobs[j].st = "done" => jobs[j].rows = h
        /\ fb[cfg.dst.buf] = RowsOf(cfg, jobs[j].rows)
        /\ \A e \in fb[cfg.dst.buf] :
             /\ e.len = n
             /\ cfg.dst.off <= e.off
             /\ e.off + e.len <= cfg.dst.off + (h - 1) * cfg.dst_stride + n
        /\ fb[other] = {}
        /\ (jobs[j].st = "done" /\ U32Val(cfg.width) = 100 /\ h = 50 /\ cfg.bpp = 4
               /\ cfg.src_stride = 4096 /\ cfg.dst_stride = 3840) =>
             /\ Cardinality(fb[cfg.dst.buf]) = 50
             /\ \A e \in fb[cfg.dst.buf] :
                  e.len = 400 /\ e.off + e.len <= cfg.dst.off + 49 * 3840 + 400

\* C7 witness: the transfer of width 100, height 50, bpp 4 with strides 4096
\* and 3840 has run to its end
C7_Witness ==
  \E j \in DOMAIN jobs :
    /\ jobs[j].st = "done" /\ jobs[j].rows = 50
    /\ jobs[j].cfg.width = U32(100) /\ jobs[j].cfg.height = U32(50)
    /\ jobs[j].cfg.bpp = 4
    /\ jobs[j].cfg.src_stride = 4096 /\ jobs[j].cfg.dst_stride = 3840
    /\ Cardinality(fb[jobs[j].cfg.dst.buf]) = 50

\* C8: a transfer the work queue rejected is not left undone: by the time the
\* flush callback returns it has been queued again or copied by the caller.
C8_RejectedNotDropped ==
  \A j \in DOMAIN jobs : jobs[j].st # "rejected"

\* an area with no pixel in the canvas: empty, or wholly outside the canvas
NoPixels(a) ==
  \/ a.x2 < a.x1 \/ a.y2 < a.y1
  \/ a.x1 >= VIRTUAL_WIDTH \/ a.y1 >= VIRTUAL_HEIGHT \/ a.x2 < 0 \/ a.y2 < 0

\* C9: a flush of an area with no pixel submits no transfer and has called
\* lv_display_flush_ready, once, when the callback returns.
C9_EmptyAreaCompletesAtOnce ==
  \A f \in DOMAIN flushes :
    NoPixels(flushes[f].area) =>
      /\ JobsOf(f) = {}
      /\ ~(f = Len(flushes) /\ flushing)

\* C10: whatever area is flushed, no copy reads outside the canvas buffer or
\* writes outside the framebuffer it is for.
C10_NoCopyOutOfBounds ==
  fault = {}

\* how many times x occurs in the sequence
Count(seq, x) == Cardinality({i \in DOMAIN seq : seq[i] = x})

\* every call in the history of releases was for a handle the program had
\* acquired, and no handle was released twice
ReleasedOnce(acquired, released) ==
  \A i \in DOMAIN released :
    released[i] \in acquired /\ Count(released, released[i]) = 1

\* C11: when create_dualscreen_display returns NULL, whatever step failed,
\* every descriptor, mapping and canvas buffer its earlier steps acquired has
\* been released exactly once, and nothing it acquired is still held.
C11_FailedCreationReleasesAll ==
  main.pc = "failed" =>
    /\ os.open = StdFds /\ os.maps = {} /\ os.heap = {} /\ os.disp = "none"
    /\ \A fd \in os.opened : Count(os.closed, fd) = 1
    /\ \A p \in os.mapped : Count(os.unmapped, p) = 1
    /\ \A p \in os.malloced : Count(os.freed, p) = 1
    /\ ReleasedOnce(os.opened, os.closed)
    /\ ReleasedOnce(os.mapped, os.unmapped)
    /\ ReleasedOnce(os.malloced, os.freed)

\* C11 witness: lv_display_create failed after both framebuffers were mapped
\* and both canvas buffers allocated, and all of them have been released
C11_Witness ==
  /\ main.pc = "failed"
  /\ os.opened = {3, 4} /\ os.mapped = Surfaces /\ os.malloced = CanvasBufs
  /\ Len(os.closed) = 2 /\ Len(os.unmapped) = 2 /\ Len(os.freed) = 2

\* C12: whenever destroy_dualscreen_display is called (after the display was
\* created, after a creation that failed and released what it had, after an
\* earlier teardown), every mapping, buffer and descriptor is released at most
\* once, and nothing is closed, unmapped or freed that was never acquired.
C12_TeardownReleasesOnce ==
  /\ ReleasedOnce(os.opened, os.closed)
  /\ ReleasedOnce(os.mapped, os.unmapped)
  /\ ReleasedOnce(os.malloced, os.freed)

\* C13: the framebuffers are unmapped and the canvas buffers freed only when
\* every transfer submitted has finished, and no copy reads a freed canvas
\* buffer or writes an unmapped framebuffer.
C13_ReleasedOnlyWhenDrained ==
  /\ (\E j \in DOMAIN jobs : jobs[j].st # "done") =>
       (Surfaces \subseteq os.maps /\ CanvasBufs \subseteq os.heap)
  /\ fault \cap {"read_freed", "write_unmapped"} = {}

\* C14: in every flush exactly one transfer carries notify and it is the one
\* submitted last: the right one when x2 >= 960, else the left one.  So with
\* one HPWORK thread, which runs the transfers in the order they were queued,
\* lv_display_flush_ready is called when all transfers of the flush are done.
C14_NotifyOnLastSubmitted ==
  /\ \A f \in DOMAIN flushes :
       LET J == JobsOf(f)
           N == {j \in J : jobs[j].notify}
       IN  /\ J # {}
           /\ Cardinality(N) = 1
           /\ \A n \in N :
                /\ \A j \in J : j <= n
                /\ jobs[n].surf = IF flushes[f].area.x2 >= 960 THEN "mem_right"
                                                                ELSE "mem_left"
  /\ env.hpnthreads = 1 =>
       \A i \in DOMAIN ready :
         /\ ready[i].unfinished = {}
         /\ jobs[ready[i].by].notify /\ jobs[ready[i].by].fid = ready[i].fid

\* C14 witness: with one HPWORK thread, the right transfer of a flush of two
\* transfers has called lv_display_flush_ready
C14_Witness ==
  /\ env.hpnthreads = 1
  /\ \E i \in DOMAIN ready :
       /\ Cardinality(JobsOf(ready[i].fid)) = 2
       /\ jobs[ready[i].by].surf = "mem_right"
       /\ \A j \in JobsOf(ready[i].fid) : jobs[j].st = "done"

\* C15: when LVGL flushes again only after lv_display_flush_ready, a transfer
\* is never queued again and its slot dma_req[i] is not rewritten while it is
\* queued or running, and a transfer that is done has copied the rows of the
\* configuration it was submitted with.
C15_JobsImmutableConsumedOnce ==
  \A j \in DOMAIN jobs :
    /\ jobs[j].st # "replaced"
    /\ jobs[j].st \in {"queued", "running"} =>
         /\ ctx.dma_req[jobs[j].slot].cfg = jobs[j].cfg
         /\ ctx.dma_req[jobs[j].slot].notify = jobs[j].notify
    /\ jobs[j].st = "done" => jobs[j].rows = U32Val(jobs[j].cfg.height)

\* C17: every transfer of a flush is at least one pixel wide and one row
\* high; a flush submits at most two transfers, at most one to each
\* framebuffer; an area that ends at x2 = 959 submits none to surface 1 and
\* an area that begins at x1 = 960 none to surface 0.
C17_JobsNonEmptyOnePerSurface ==
  \A f \in DOMAIN flushes :
    LET a == flushes[f].area
        J == JobsOf(f)
    IN  /\ \A j \in J :
             /\ U32Fits(jobs[j].cfg.width) /\ U32Val(jobs[j].cfg.width) >= 1
             /\ U32Fits(jobs[j].cfg.height) /\ U32Val(jobs[j].cfg.height) >= 1
             /\ RectWidth(jobs[j].rect) >= 1 /\ RectHeight(jobs[j].rect) >= 1
        /\ Cardinality(J) <= 2
        /\ \A b \in Surfaces : Cardinality({j \in J : jobs[j].surf = b}) <= 1
        /\ a.x2 = 959 => \A j \in J : jobs[j].surf # "mem_right"
        /\ a.x1 = 960 => \A j \in J : jobs[j].surf # "mem_left"

\* C17 witness: one flush ended at x2 = 959 and one began at x1 = 960, each
\* with its single transfer
C17_Witness ==
  /\ \E f \in DOMAIN flushes :
       flushes[f].area.x2 = 959 /\ Cardinality(JobsOf(f)) = 1
  /\ \E f \in DOMAIN flushes :
       flushes[f].area.x1 = 960 /\ Cardinality(JobsOf(f)) = 1

\* C16: whatever valid area is flushed and whatever stride and length the
\* framebuffer devices report, the rows of every transfer submitted lie
\* inside the canvas buffer of 1920 * 720 * 4 bytes on the source side and
\* inside [mem, mem + fblen) of its framebuffer on the destination side.
C16_JobsInsideBothBuffers ==
  \A j \in DOMAIN jobs :
    LET cfg == jobs[j].cfg
        h == U32Val(cfg.height)
        n == U32Val(cfg.width) * cfg.bpp
    IN  (jobs[j].fid \in DOMAIN flushes /\ ValidArea(flushes[jobs[j].fid].area)) =>
          /\ cfg.src.buf \in CanvasBufs
          /\ cfg.src.off >= 0
          /\ cfg.src.off + (h - 1) * cfg.src_stride + n <= 1920 * 720 * 4
          /\ cfg.dst.buf = jobs[j].surf
          /\ cfg.dst.off >= 0
          /\ cfg.dst.off + (h - 1) * cfg.dst_stride + n <= BufLen(ctx, jobs[j].surf)

\* the n bytes at d lie in one row of the rectangle r of the framebuffer surf
InRect(surf, r, d, n) ==
  /\ d.buf = surf
  /\ \E y \in r.y1 .. r.y2 :
       /\ y * Stride(surf) + r.x1 * BYTES_PER_PIXEL <= d.off
       /\ d.off + n <= y * Stride(surf) + (r.x2 + 1) * BYTES_PER_PIXEL

\* one row copied by thread w for the transfer it was given: the bytes
\* written lie in the rectangle of that transfer, every other byte of that
\* framebuffer, the other framebuffer and the canvas buffers stay as they are
RowInOwnRect(w) ==
  LET wk == worker[w]
      j == jobs[wk.job]
      n == U32Val(wk.line_bytes)
  IN  /\ InRect(j.surf, j.rect, wk.d, n)
      /\ Overwritten(fb'[j.surf], wk.d.off, n) = Overwritten(fb[j.surf], wk.d.off, n)
      /\ \A b \in Surfaces \ {j.surf} : fb'[b] = fb[b]
      /\ canvas' = canvas /\ buf_act' = buf_act

\* the transfers of one flush go to different framebuffers
DisjointDestinations ==
  \A f \in DOMAIN flushes :
    \A j \in JobsOf(f), k \in JobsOf(f) :
      j # k => jobs[j].cfg.dst.buf # jobs[k].cfg.dst.buf

\* C18: a transfer, while it is executed, writes only into the framebuffer it
\* was built for and only inside its own rectangle; the canvas buffers, the
\* other framebuffer and the bytes outside the rectangle do not change; the
\* two transfers of one flush write disjoint destinations.
C18_WritesOnlyOwnRectangle ==
  /\ []DisjointDestinations
  /\ [][\A w \in 1..MaxWorkers : dma_worker_row(w) => RowInOwnRect(w)]_vars

\* C19: when the work queue accepts every item and the HPWORK threads keep
\* running, every flush of a valid area is followed by a call of
\* lv_display_flush_ready made while it is the pending flush, and
\* disp->flushing does not stay raised for ever.
C19_FlushEventuallyReady ==
  /\ \A f \in 1..MaxFlushes :
       (Len(flushes) >= f) ~> (\E i \in DOMAIN ready : ready[i].fid = f)
  /\ flushing ~> ~flushing

\* C19 witness: the last flush allowed has been requested and has been
\* reported ready
C19_Witness ==
  /\ Len(flushes) = MaxFlushes
  /\ ~flushing
  /\ \E i \in DOMAIN ready : ready[i].fid = MaxFlushes /\ ready[i].pending

====
